---- MODULE Spec2Model ----
(***************************************************************************)
(* ClonCEOptimizer (src/ltl/optimizers/clonce/optimizer.py): cross-entropy *)
(* optimizer with a cloning step and a Gibbs resampling step.              *)
(*                                                                         *)
(* Individuals are vectors over Vals indexed by Coordinates.  Reals are    *)
(* modelled exactly as rationals <<num, den>> (rho, smoothing) or small    *)
(* integers (fitness values, stop_criterion).  The distribution objects    *)
(* (parameters.distribution, parameters.parameterDistribution) are         *)
(* external: fit records the data it was given, sample returns any         *)
(* individuals.                                                            *)
(***************************************************************************)
EXTENDS Integers, Sequences, FiniteSets, TLC

\* ---------------------------------------------------------------- bounds
MaxBurnIn == 2
MaxIter == 1
MaxEvaluated == 6

\* ------------------------------------------------------- input domains
PopSizes == {0, 1, 2}
Coordinates == 1..2
Vals == {0, 1}
BoundedVals == {0}
FitVals == {0, 1}
FitnessWeights == {<<1>>, <<-1>>}
Rhos == {<<1, 4>>, <<1, 2>>, <<1, 1>>}
Smoothings == {<<-1, 2>>, <<0, 1>>, <<1, 1>>}
StopCriteria == {0}
NegInf == -99

Indiv == [Coordinates -> Vals]

\* ------------------------------------------------------------- helpers
RECURSIVE Dot(_, _)
\* np.dot(fitness, self.optimizee_fitness_weights)
Dot(fitness, weights) ==
  IF Len(fitness) = 0 THEN 0
  ELSE Head(fitness) * Head(weights) + Dot(Tail(fitness), Tail(weights))

\* int(x) for x = num/den, den > 0: truncation towards zero
PyInt(num, den) ==
  IF num >= 0 THEN num \div den ELSE -((-num) \div den)

\* seq[k] with Python's 0-based index, negative k counting from the end
PyIndex(seq, k) ==
  IF k >= 0 THEN seq[k + 1] ELSE seq[Len(seq) + k + 1]

\* seq[:n] with Python's slice semantics
PySliceTo(seq, n) ==
  LET stop == IF n >= 0 THEN (IF n > Len(seq) THEN Len(seq) ELSE n)
              ELSE (IF Len(seq) + n < 0 THEN 0 ELSE Len(seq) + n)
  IN SubSeq(seq, 1, stop)

\* seq[n:]
PySliceFrom(seq, n) == SubSeq(seq, n + 1, Len(seq))

\* np.argsort(weighted_fitness_list): an ascending arg-sort; the order of
\* equal keys is not specified by the default sort kind, so every sorting
\* permutation is a possible result
Argsort(ws) ==
  {p \in [1..Len(ws) -> 1..Len(ws)] :
     /\ \A i, j \in 1..Len(ws) : i # j => p[i] # p[j]
     /\ \A i \in 1..Len(ws) : i < Len(ws) => ws[p[i]] <= ws[p[i + 1]]}

\* list(reversed(p))
Reversed(p) == [i \in 1..Len(p) |-> p[Len(p) + 1 - i]]

\* an indexing that leaves the array in its original order
TakeUnsorted(array, indices) == array

\* array[indices] (numpy fancy indexing with a list of indices)
Take(array, indices) == [i \in 1..Len(indices) |-> array[indices[i]]]

\* dict_to_list / list_to_dict of the ltl package: an Individual-Dict with one
\* array-valued key is flattened to the vector and rebuilt from it
dict_to_list(d) == d.coords
list_to_dict(v) == [coords |-> v]

\* optimizee_bounding_func: returns an individual that is within bounds
BoundingFunc(ind) ==
  [coords |-> [i \in 1..Len(ind.coords) |->
     IF ind.coords[i] \in BoundedVals THEN ind.coords[i]
     ELSE CHOOSE b \in BoundedVals : \A c \in BoundedVals : c <= b]]

InBounds(ind) == \A i \in 1..Len(ind.coords) : ind.coords[i] \in BoundedVals

\* Distribution.fit(data, smoothing): the fitted state and the result
Unfitted == [fitted |-> FALSE, data |-> <<>>, smoothing |-> <<0, 1>>]
Fit(data, smoothing) == [fitted |-> TRUE, data |-> data, smoothing |-> smoothing]
NoResults == [defined |-> FALSE, data |-> <<>>]
FitResults(data) == [defined |-> TRUE, data |-> data]

\* ------------------------------------------------------------ parameters
Parameters ==
  [pop_size : PopSizes, rho : Rhos, smoothing : Smoothings,
   burn_in : 1..MaxBurnIn, stop_criterion : StopCriteria,
   n_iteration : 0..MaxIter]

RecordedParameters ==
  {"pop_size", "rho", "smoothing", "burn_in", "stop_criterion", "n_iteration"}

\* a check that lets smoothing = 1 through
ValidParametersLoose(p) ==
  /\ ~(p.pop_size < 1)
  /\ ~(p.smoothing[1] > p.smoothing[2] \/ p.smoothing[1] < 0)

\* the two checks of __init__ that raise ValueError (lines 84-87)
ValidParameters(p) ==
  /\ ~(p.pop_size < 1)
  /\ ~(p.smoothing[1] >= p.smoothing[2] \/ p.smoothing[1] < 0)

\* n_elite = int(rho * pop_size)
NElite(rho, pop_size) == PyInt(rho[1] * pop_size, rho[2])

\* cloning_parameter = int(pop_size / (burn_in * n_elite) - 1)
CloningParameter(pop_size, burn_in, ne) ==
  PyInt(pop_size - burn_in * ne, burn_in * ne)

VARIABLES
  pc, raised,
  parameters, optimizee_fitness_weights, optimizee_bounding_func,
  traj_parameters, traj_expanded,
  g, gamma, best_fitness_in_run, best_indv,
  eval_pop, eval_pop_asarray,
  current_distribution, parameterDistribution, distribution_results,
  weighted_fitness_list, sorted_population, sorted_fitess,
  n_elite, elite_individuals,
  cloning_parameter, cloned_population, sampled_population, gibbs_i, gibbs_j,
  traj_individual, gen_idx, ind_idx, weights_e, weights_i, simulate_result

self == <<g, gamma, best_fitness_in_run, best_indv, eval_pop, eval_pop_asarray,
          current_distribution, parameterDistribution, distribution_results>>
args == <<parameters, optimizee_fitness_weights, optimizee_bounding_func>>
traj == <<traj_parameters, traj_expanded>>
select_locals == <<weighted_fitness_list, sorted_population, sorted_fitess,
                   n_elite, elite_individuals>>
clone_locals == <<cloning_parameter, cloned_population, sampled_population,
                  gibbs_i, gibbs_j>>
optimizee == <<traj_individual, gen_idx, ind_idx, weights_e, weights_i,
               simulate_result>>
vars == <<pc, raised, args, traj, self, select_locals, clone_locals, optimizee>>

\* StructuralPlasticityOptimizee before simulate() is called
NoIndividual ==
  [generation |-> 0, ind_idx |-> 0, weights_e |-> 0, weights_i |-> 0,
   targets |-> <<0>>]
NoReturn == [returned |-> FALSE, fitness |-> 0, model_out |-> <<>>]
OptimizeeIdle ==
  /\ traj_individual = NoIndividual
  /\ gen_idx = 0 /\ ind_idx = 0 /\ weights_e = 0 /\ weights_i = 0
  /\ simulate_result = NoReturn

NoExpansion == [generation |-> -1, n |-> 0]

\* ----------------------------------------------------------- constructor
\* state before ClonCEOptimizer.__init__ has run
InitCtor ==
  /\ pc = "new" /\ raised = "none"
  /\ parameters \in Parameters
  /\ optimizee_fitness_weights \in FitnessWeights
  /\ optimizee_bounding_func \in BOOLEAN
  /\ traj_parameters = {} /\ traj_expanded = NoExpansion
  /\ g = 0 /\ gamma = NegInf /\ best_fitness_in_run = NegInf
  /\ best_indv = <<>>
  /\ eval_pop = <<>> /\ eval_pop_asarray = <<>>
  /\ current_distribution = Unfitted /\ parameterDistribution = Unfitted
  /\ distribution_results = NoResults
  /\ weighted_fitness_list = <<>> /\ sorted_population = <<>>
  /\ sorted_fitess = <<>> /\ n_elite = 0 /\ elite_individuals = <<>>
  /\ cloning_parameter = 0 /\ cloned_population = <<>>
  /\ sampled_population = <<>> /\ gibbs_i = 0 /\ gibbs_j = 0
  /\ OptimizeeIdle

\* lines 84-87: raise ValueError
CtorRaise ==
  /\ pc = "new"
  /\ ~ValidParameters(parameters)
  /\ pc' = "raised" /\ raised' = "ValueError"
  /\ UNCHANGED optimizee
  /\ UNCHANGED <<args, traj, self, select_locals, clone_locals>>

\* lines 89-119: record the parameters, initialise g, gamma, pop_size
CtorRecord ==
  /\ pc = "new"
  /\ ValidParameters(parameters)
  /\ traj_parameters' = RecordedParameters \cup {"dimension"}
  /\ g' = 0 /\ gamma' = NegInf /\ best_fitness_in_run' = NegInf
  /\ pc' = "recorded"
  /\ UNCHANGED optimizee
  /\ UNCHANGED <<raised, args, traj_expanded, best_indv, eval_pop,
                 eval_pop_asarray, current_distribution,
                 parameterDistribution, distribution_results,
                 select_locals, clone_locals>>

\* optimizee_create_individual() for each of range(pop_size), then the
\* bounding function when one was given
CreatedPopulations(pop_size, bounding) ==
  {[i \in 1..pop_size |->
      IF bounding THEN BoundingFunc(list_to_dict(c[i])) ELSE list_to_dict(c[i])] :
   c \in [1..pop_size -> Indiv]}

\* lines 127-133
CtorPopulate ==
  /\ pc = "recorded"
  /\ \E pop \in CreatedPopulations(parameters.pop_size, optimizee_bounding_func) :
       /\ eval_pop' = pop
       /\ eval_pop_asarray' = [i \in 1..Len(pop) |-> dict_to_list(pop[i])]
  /\ pc' = "populated"
  /\ UNCHANGED optimizee
  /\ UNCHANGED <<raised, args, traj, g, gamma, best_fitness_in_run, best_indv,
                 current_distribution, parameterDistribution,
                 distribution_results, select_locals, clone_locals>>

\* lines 135-141: fit the distribution, expand the trajectory
CtorFit ==
  /\ pc = "populated"
  /\ current_distribution' = Fit(eval_pop_asarray, <<0, 1>>)
  /\ traj_expanded' = [generation |-> g, n |-> Len(eval_pop)]
  /\ pc' = "evaluating"
  /\ UNCHANGED optimizee
  /\ UNCHANGED <<raised, args, traj_parameters, g, gamma, best_fitness_in_run,
                 best_indv, eval_pop, eval_pop_asarray, parameterDistribution,
                 distribution_results, select_locals, clone_locals>>

NextCtor == CtorRaise \/ CtorRecord \/ CtorPopulate \/ CtorFit

SpecCtor == InitCtor /\ [][NextCtor]_vars

\* ------------------------------------------------------------------ run
\* number of individuals of a generation built by post_process
GenerationSize(p) ==
  LET ne == NElite(p.rho, p.pop_size)
  IN IF p.burn_in * ne = 0 THEN p.pop_size
     ELSE p.pop_size * (1 + CloningParameter(p.pop_size, p.burn_in, ne))

\* parameter settings the constructor accepts, capped by the number of
\* individuals a whole run evaluates
RunParameters ==
  {p \in Parameters :
     /\ ValidParameters(p)
     /\ p.pop_size + (p.n_iteration + 1) * GenerationSize(p) <= MaxEvaluated}

\* state after ClonCEOptimizer.__init__ returned (lines 76-141)
Init ==
  /\ pc = "evaluating" /\ raised = "none"
  /\ parameters \in RunParameters
  /\ optimizee_fitness_weights \in FitnessWeights
  /\ optimizee_bounding_func \in BOOLEAN
  /\ traj_parameters = RecordedParameters \cup {"dimension"}
  /\ g = 0 /\ gamma = NegInf /\ best_fitness_in_run = NegInf
  /\ best_indv = <<>>
  /\ eval_pop \in CreatedPopulations(parameters.pop_size, optimizee_bounding_func)
  /\ eval_pop_asarray = [i \in 1..Len(eval_pop) |-> dict_to_list(eval_pop[i])]
  /\ current_distribution = Fit(eval_pop_asarray, <<0, 1>>)
  /\ traj_expanded = [generation |-> 0, n |-> Len(eval_pop)]
  /\ parameterDistribution = Unfitted
  /\ distribution_results = NoResults
  /\ weighted_fitness_list = <<>> /\ sorted_population = <<>>
  /\ sorted_fitess = <<>> /\ n_elite = 0 /\ elite_individuals = <<>>
  /\ cloning_parameter = 0 /\ cloned_population = <<>>
  /\ sampled_population = <<>> /\ gibbs_i = 0 /\ gibbs_j = 0
  /\ OptimizeeIdle

FitnessVectors == [1..Len(optimizee_fitness_weights) -> FitVals]

\* an arg-sort that is not reversed
SortingIndicesAscending(ws) == Argsort(ws)

\* the descending arg-sorts of the weighted fitness (line 169)
SortingIndices(ws) == {Reversed(p) : p \in Argsort(ws)}

\* post_process lines 148-181: read the fitnesses (one per individual of the
\* evaluated generation, in individual order), sort, select the elite
PostProcessSelect ==
  /\ pc = "evaluating"
  /\ \E fitnesses_results \in [1..Len(eval_pop) -> FitnessVectors] :
       LET wfl == [i \in 1..Len(eval_pop) |->
                     Dot(fitnesses_results[i], optimizee_fitness_weights)]
       IN \E fitness_sorting_indices \in SortingIndices(wfl) :
            LET sp == Take(eval_pop_asarray, fitness_sorting_indices)
                sf == Take(wfl, fitness_sorting_indices)
                ne == NElite(parameters.rho, parameters.pop_size)
            IN /\ weighted_fitness_list' = wfl
               /\ sorted_population' = sp
               /\ sorted_fitess' = sf
               /\ n_elite' = ne
               /\ elite_individuals' = PySliceTo(sp, ne)
               /\ best_fitness_in_run' = PyIndex(sf, 0)
               /\ best_indv' = PyIndex(sp, 0)
               /\ gamma' = PyIndex(sf, ne - 1)
  /\ pc' = "selected"
  /\ UNCHANGED optimizee
  /\ UNCHANGED <<raised, args, traj, g, eval_pop, eval_pop_asarray,
                 current_distribution, parameterDistribution,
                 distribution_results, clone_locals>>

\* line 184
StopCondition ==
  g > parameters.n_iteration \/ best_fitness_in_run > parameters.stop_criterion

\* lines 184-185: return, the locals are gone
PostProcessStop ==
  /\ pc = "selected"
  /\ StopCondition
  /\ pc' = "stopped"
  /\ weighted_fitness_list' = <<>> /\ sorted_population' = <<>>
  /\ sorted_fitess' = <<>> /\ n_elite' = 0 /\ elite_individuals' = <<>>
  /\ UNCHANGED optimizee
  /\ UNCHANGED <<raised, args, traj, self, clone_locals>>

\* lines 187-228: fit the distribution to the elite individuals
PostProcessFit ==
  /\ pc = "selected"
  /\ ~StopCondition
  /\ current_distribution' = Fit(elite_individuals, parameters.smoothing)
  /\ distribution_results' = FitResults(elite_individuals)
  /\ pc' = "fitted"
  /\ UNCHANGED optimizee
  /\ UNCHANGED <<raised, args, traj, g, gamma, best_fitness_in_run, best_indv,
                 eval_pop, eval_pop_asarray, parameterDistribution,
                 select_locals, clone_locals>>

\* a sampling placed before the refit: it draws from the distribution as the
\* previous generation left it
PostProcessSampleEarly ==
  /\ pc = "selected"
  /\ ~StopCondition
  /\ \E sample \in [1..parameters.pop_size -> Indiv] :
       eval_pop_asarray' = sample
  /\ weighted_fitness_list' = <<>> /\ sorted_population' = <<>>
  /\ sorted_fitess' = <<>>
  /\ pc' = "sampled"
  /\ UNCHANGED optimizee
  /\ UNCHANGED <<raised, args, traj, g, gamma, best_fitness_in_run, best_indv,
                 eval_pop, current_distribution, parameterDistribution,
                 distribution_results, n_elite, elite_individuals,
                 clone_locals>>

\* line 236: self.current_distribution.sample(self.pop_size); the sorted
\* arrays are not read after this point and are dropped here, the other
\* locals when the call is over
PostProcessSample ==
  /\ pc = "fitted"
  /\ \E sample \in [1..parameters.pop_size -> Indiv] :
       eval_pop_asarray' = sample
  /\ weighted_fitness_list' = <<>> /\ sorted_population' = <<>>
  /\ sorted_fitess' = <<>>
  /\ pc' = "sampled"
  /\ UNCHANGED optimizee
  /\ UNCHANGED <<raised, args, traj, g, gamma, best_fitness_in_run, best_indv,
                 eval_pop, current_distribution, parameterDistribution,
                 distribution_results, n_elite, elite_individuals,
                 clone_locals>>

\* line 240 when burn_in * n_elite = 0
PostProcessCloneRaise ==
  /\ pc = "sampled"
  /\ parameters.burn_in * n_elite = 0
  /\ pc' = "raised" /\ raised' = "ZeroDivisionError"
  /\ UNCHANGED optimizee
  /\ UNCHANGED <<args, traj, self, select_locals, clone_locals>>

RECURSIVE Copies(_, _)
Copies(row, n) == IF n <= 0 THEN <<>> ELSE <<row>> \o Copies(row, n - 1)

RECURSIVE ClonesFrom(_, _, _)
ClonesFrom(population, i, cp) ==
  IF i > Len(population) THEN <<>>
  ELSE Copies(population[i], cp) \o ClonesFrom(population, i + 1, cp)

\* a cloning loop that ignores cloning_parameter and clones every row once
ClonedPopulationOnce(population, cp) == population \o population

\* lines 248-251: the population followed by cloning_parameter further
\* copies of each of its rows, row by row
ClonedPopulation(population, cp) == population \o ClonesFrom(population, 1, cp)

\* lines 240-254: cloning
PostProcessClone ==
  /\ pc = "sampled"
  /\ parameters.burn_in * n_elite # 0
  /\ LET cp == CloningParameter(parameters.pop_size, parameters.burn_in, n_elite)
         cloned == ClonedPopulation(eval_pop_asarray, cp)
     IN /\ cloning_parameter' = cp
        /\ cloned_population' = cloned
        /\ sampled_population' = cloned
  /\ eval_pop' = <<>>
  /\ gibbs_i' = 0 /\ gibbs_j' = 0
  /\ pc' = "gibbs"
  /\ UNCHANGED optimizee
  /\ UNCHANGED <<raised, args, traj, g, gamma, best_fitness_in_run, best_indv,
                 eval_pop_asarray, current_distribution, parameterDistribution,
                 distribution_results, select_locals>>

\* lines 259-260
CondSamples(cloned, sampled, i) ==
  PySliceTo(cloned, i) \o PySliceFrom(sampled, i + 1)

\* line 263: cloned_population[i] = self.parameterDistribution.sample(1)
GibbsAssign(row, sample, j) == sample

\* lines 257-263: one pass of the inner loop body
PostProcessGibbs ==
  /\ pc = "gibbs"
  /\ gibbs_i < Len(cloned_population)
  /\ parameterDistribution' =
       Fit(CondSamples(cloned_population, sampled_population, gibbs_i), <<0, 1>>)
  /\ \E sample \in Indiv :
       cloned_population' =
         [cloned_population EXCEPT ![gibbs_i + 1] =
            GibbsAssign(cloned_population[gibbs_i + 1], sample, gibbs_j)]
  /\ IF gibbs_j + 1 < parameters.burn_in
       THEN gibbs_j' = gibbs_j + 1 /\ gibbs_i' = gibbs_i
       ELSE gibbs_j' = 0 /\ gibbs_i' = gibbs_i + 1
  /\ UNCHANGED optimizee
  /\ UNCHANGED <<pc, raised, args, traj, g, gamma, best_fitness_in_run,
                 best_indv, eval_pop, eval_pop_asarray, current_distribution,
                 distribution_results, select_locals, cloning_parameter,
                 sampled_population>>

\* lines 265-272: the cloned population becomes the next generation
PostProcessFinish ==
  /\ pc = "gibbs"
  /\ gibbs_i = Len(cloned_population)
  /\ eval_pop' = [i \in 1..Len(cloned_population) |->
                    list_to_dict(cloned_population[i])]
  /\ eval_pop_asarray' = [i \in 1..Len(cloned_population) |->
                            dict_to_list(list_to_dict(cloned_population[i]))]
  /\ g' = g + 1
  /\ traj_expanded' = [generation |-> g + 1, n |-> Len(cloned_population)]
  /\ n_elite' = 0 /\ elite_individuals' = <<>>
  /\ cloning_parameter' = 0 /\ cloned_population' = <<>>
  /\ sampled_population' = <<>> /\ gibbs_i' = 0 /\ gibbs_j' = 0
  /\ pc' = "evaluating"
  /\ UNCHANGED optimizee
  /\ UNCHANGED <<raised, args, traj_parameters, gamma, best_fitness_in_run,
                 best_indv, current_distribution, parameterDistribution,
                 distribution_results, weighted_fitness_list,
                 sorted_population, sorted_fitess>>

\* end(), lines 274-284, after the run stopped: reads distribution_results
EndRaise ==
  /\ pc = "stopped"
  /\ ~distribution_results.defined
  /\ pc' = "raised" /\ raised' = "AttributeError"
  /\ UNCHANGED optimizee
  /\ UNCHANGED <<args, traj, self, select_locals, clone_locals>>

End ==
  /\ pc = "stopped"
  /\ distribution_results.defined
  /\ pc' = "ended"
  /\ UNCHANGED optimizee
  /\ UNCHANGED <<raised, args, traj, self, select_locals, clone_locals>>

Next ==
  \/ PostProcessSelect
  \/ PostProcessStop
  \/ PostProcessFit
  \/ PostProcessSample
  \/ PostProcessCloneRaise
  \/ PostProcessClone
  \/ PostProcessGibbs
  \/ PostProcessFinish
  \/ EndRaise
  \/ End

Spec == Init /\ [][Next]_vars

\* ------------------------------------------------------------- simulate
\* StructuralPlasticityOptimizee.simulate (src/l2l/optimizees/snn/optimizee.py)
Generations == {0, 1}
IndIndices == {0, 1}
WeightVals == {0, 1}
\* the ten output clusters, range(10)
Labels == 0..9

\* ClonceParameters.__new__.__defaults__ (rho = 0.2, stop_criterion = 0.0)
DefaultParameters ==
  [pop_size |-> 30, rho |-> <<1, 5>>, smoothing |-> <<0, 1>>, burn_in |-> 1,
   stop_criterion |-> 0, n_iteration |-> 30]

\* traj.individual as the optimizer hands it to simulate
Individuals ==
  [generation : Generations, ind_idx : IndIndices, weights_e : WeightVals,
   weights_i : WeightVals, targets : [{1} -> Labels]]

\* target = np.zeros(10); target[target_label] = 1.0, in units of 1/unit
OneHot(target_label, unit) ==
  [j \in 1..10 |-> IF j = target_label + 1 THEN unit ELSE 0]

RECURSIVE SumSquares(_)
SumSquares(ds) ==
  IF Len(ds) = 0 THEN 0 ELSE Head(ds) * Head(ds) + SumSquares(Tail(ds))

\* ((target - model_out) ** 2).sum()
SquaredError(target, model_out) ==
  SumSquares([j \in 1..Len(target) |-> target[j] - model_out[j]])

\* an optimizee about to simulate one individual; no optimizer is involved
InitSim ==
  /\ pc = "simulate" /\ raised = "none"
  /\ parameters = DefaultParameters
  /\ optimizee_fitness_weights = <<1>>
  /\ optimizee_bounding_func = FALSE
  /\ traj_parameters = {} /\ traj_expanded = NoExpansion
  /\ g = 0 /\ gamma = NegInf /\ best_fitness_in_run = NegInf
  /\ best_indv = <<>>
  /\ eval_pop = <<>> /\ eval_pop_asarray = <<>>
  /\ current_distribution = Unfitted /\ parameterDistribution = Unfitted
  /\ distribution_results = NoResults
  /\ weighted_fitness_list = <<>> /\ sorted_population = <<>>
  /\ sorted_fitess = <<>> /\ n_elite = 0 /\ elite_individuals = <<>>
  /\ cloning_parameter = 0 /\ cloned_population = <<>>
  /\ sampled_population = <<>> /\ gibbs_i = 0 /\ gibbs_j = 0
  /\ traj_individual \in Individuals
  /\ gen_idx = 0 /\ ind_idx = 0 /\ weights_e = 0 /\ weights_i = 0
  /\ simulate_result = NoReturn

\* lines 585-593: prepare the network, read the indices and the weights of
\* the individual into the attributes of the optimizee
SimulateReadIndividual ==
  /\ pc = "simulate"
  /\ gen_idx' = traj_individual.generation
  /\ ind_idx' = traj_individual.ind_idx
  /\ weights_e' = traj_individual.weights_e
  /\ weights_i' = traj_individual.weights_i
  /\ pc' = "weights_read"
  /\ UNCHANGED <<raised, args, traj, self, select_locals, clone_locals,
                 traj_individual, simulate_result>>

\* line 594: the argument weights_e is a name that simulate never binds
\* (only self.weights_e is assigned) and the module has no such global
SimulateReplaceWeightsRaise ==
  /\ pc = "weights_read"
  /\ pc' = "raised" /\ raised' = "NameError"
  /\ UNCHANGED <<args, traj, self, select_locals, clone_locals, optimizee>>

NextSim == SimulateReadIndividual \/ SimulateReplaceWeightsRaise

SpecSim == InitSim /\ [][NextSim]_vars

\* =============================================================== claims
\* floor of the rational r times n, for r >= 0
FloorTimes(r, n) == (r[1] * n) \div r[2]

\* the sets of positions of the evaluated generation whose individuals, in
\* some order, make up the data
PositionsOf(data, population) ==
  {idx \in [1..Len(data) -> 1..Len(population)] :
     /\ \A a, b \in 1..Len(data) : a # b => idx[a] # idx[b]
     /\ \A a \in 1..Len(data) : data[a] = population[idx[a]]}

\* C1: the individuals passed to the distribution refit are exactly
\* n_elite = floor(rho * pop_size) individuals of the evaluated generation,
\* and each of them has a weighted fitness >= that of every individual that
\* was not passed.
C1_FitGetsTheElite ==
  pc = "fitted" =>
    /\ Len(current_distribution.data) =
         FloorTimes(parameters.rho, parameters.pop_size)
    /\ \E idx \in PositionsOf(current_distribution.data, eval_pop_asarray) :
         \A i \in 1..Len(eval_pop_asarray) :
           \A a \in 1..Len(idx) :
             (\A b \in 1..Len(idx) : idx[b] # i) =>
               weighted_fitness_list[idx[a]] >= weighted_fitness_list[i]

\* C1 witness: a refit on a proper, non-empty part of a generation whose
\* weighted fitnesses differ
C1_Witness ==
  /\ pc = "fitted"
  /\ Len(current_distribution.data) >= 1
  /\ Len(current_distribution.data) < Len(eval_pop_asarray)
  /\ \E i, j \in 1..Len(weighted_fitness_list) :
       weighted_fitness_list[i] < weighted_fitness_list[j]

\* C2: in every post_process call the number of elite individuals is
\* floor(rho * N), N being the number of individuals evaluated in that
\* iteration.
C2_EliteIsFractionOfEvaluated ==
  pc = "selected" =>
    Len(elite_individuals) = FloorTimes(parameters.rho, Len(eval_pop))

\* C3: whenever the best weighted fitness of the evaluated generation is
\* >= stop_criterion, post_process returns without going on to build a next
\* generation.
C3_StopsWhenCriterionReached ==
  pc \in {"fitted", "sampled", "gibbs"} =>
    ~(best_fitness_in_run >= parameters.stop_criterion)

\* C4: the number of post_process calls that created a new generation (the
\* generation counter g, which starts at 0) never exceeds n_iteration.
C4_AtMostNIterations == g <= parameters.n_iteration

\* C5: with pop_size < 1 or smoothing outside [0, 1) the constructor raises
\* ValueError, and it has then recorded none of its parameters in the
\* trajectory, created no population and fitted no distribution.
C5_InvalidParametersRaiseFirst ==
  (\/ parameters.pop_size < 1
   \/ parameters.smoothing[1] < 0
   \/ parameters.smoothing[1] >= parameters.smoothing[2]) =>
    /\ pc \in {"new", "raised"}
    /\ pc = "raised" => raised = "ValueError"
    /\ traj_parameters \cap RecordedParameters = {}
    /\ traj_expanded = NoExpansion
    /\ eval_pop = <<>> /\ eval_pop_asarray = <<>>
    /\ ~current_distribution.fitted

\* C5 witness: the constructor has raised for smoothing = 1
C5_Witness ==
  /\ pc = "raised" /\ raised = "ValueError"
  /\ parameters.pop_size >= 1
  /\ parameters.smoothing[1] = parameters.smoothing[2]

\* C6: every generation submitted for evaluation holds at least pop_size
\* individuals, the initial one exactly pop_size, and one built by
\* post_process exactly pop_size * (1 + cloning_parameter) with
\* cloning_parameter = trunc(pop_size / (burn_in * n_elite) - 1).
C6_GenerationSize ==
  pc = "evaluating" =>
    LET q == parameters.burn_in * FloorTimes(parameters.rho, parameters.pop_size)
        num == parameters.pop_size - q
        trunc == IF num >= 0 THEN num \div q ELSE -((-num) \div q)
    IN /\ Len(eval_pop) >= parameters.pop_size
       /\ traj_expanded = [generation |-> g, n |-> Len(eval_pop)]
       /\ g = 0 => Len(eval_pop) = parameters.pop_size
       /\ g > 0 => Len(eval_pop) = parameters.pop_size * (1 + trunc)

\* C6 witness: a generation built by post_process that cloning enlarged
C6_Witness ==
  /\ pc = "evaluating" /\ g > 0
  /\ Len(eval_pop) > parameters.pop_size

\* C7: every individual of the cloned population, before the Gibbs
\* resampling, is a copy of one of the elite individuals selected from the
\* generation just evaluated.
C7_ClonesAreElite ==
  (pc = "gibbs" /\ gibbs_i = 0 /\ gibbs_j = 0) =>
    \A k \in 1..Len(cloned_population) :
      \E e \in 1..Len(elite_individuals) :
        cloned_population[k] = elite_individuals[e]

\* C8: a resampling step of the Gibbs loop changes at most one coordinate of
\* the individual it resamples and leaves its other coordinates unchanged.
C8_GibbsChangesOneCoordinate ==
  [][(pc = "gibbs" /\ gibbs_i < Len(cloned_population)) =>
       Cardinality({k \in Coordinates :
         cloned_population'[gibbs_i + 1][k] # cloned_population[gibbs_i + 1][k]})
       <= 1]_vars

\* C9: when optimizee_bounding_func is provided, every individual of every
\* generation submitted for evaluation is an output of the bounding
\* function, i.e. is within bounds.
C9_SubmittedAreBounded ==
  (pc = "evaluating" /\ optimizee_bounding_func) =>
    \A k \in 1..Len(eval_pop) :
      InBounds(eval_pop[k]) /\ BoundingFunc(eval_pop[k]) = eval_pop[k]

\* C10: when post_process returns, gamma is the weighted fitness of the
\* lowest-ranked elite individual, every elite individual has a weighted
\* fitness >= gamma and every other individual one <= gamma (checked where a
\* stopping call returns, the last point at which the sorted fitnesses exist).
C10_GammaSeparatesElite ==
  [][(pc = "selected" /\ pc' = "stopped") =>
       /\ Len(elite_individuals) >= 1 =>
            gamma' = sorted_fitess[Len(elite_individuals)]
       /\ \A i \in 1..Len(sorted_fitess) :
            /\ i <= Len(elite_individuals) => sorted_fitess[i] >= gamma'
            /\ i > Len(elite_individuals) => sorted_fitess[i] <= gamma']_vars

\* C11: after post_process has ranked a generation, best_fitness_in_run is
\* the highest weighted fitness of that generation and best_indv is the
\* vector of an individual that achieved it; no later step of the call, nor
\* end(), changes either of them.
C11_BestOfGeneration ==
  /\ [](pc \in {"selected", "fitted"} =>
         /\ \A i \in 1..Len(weighted_fitness_list) :
              weighted_fitness_list[i] <= best_fitness_in_run
         /\ \E i \in 1..Len(weighted_fitness_list) :
              /\ weighted_fitness_list[i] = best_fitness_in_run
              /\ eval_pop_asarray[i] = best_indv)
  /\ [][pc # "evaluating" =>
         UNCHANGED <<best_fitness_in_run, best_indv>>]_vars

\* C11 witness: a stopping call has returned and the best individual of a
\* generation of several individuals is not the first one
C11_Witness ==
  /\ pc = "stopped"
  /\ Len(eval_pop_asarray) >= 2
  /\ best_indv # eval_pop_asarray[1]
  /\ best_fitness_in_run > NegInf

\* what a step of the optimizer may do, by position in post_process
C12_Step ==
  /\ pc' # pc =>
     \/ pc = "evaluating" /\ pc' = "selected"
     \/ pc = "selected" /\ pc' \in {"stopped", "fitted"}
     \/ pc = "fitted" /\ pc' = "sampled"
     \/ pc = "sampled" /\ pc' \in {"gibbs", "raised"}
     \/ pc = "gibbs" /\ pc' = "evaluating"
     \/ pc = "stopped" /\ pc' \in {"ended", "raised"}
  /\ current_distribution' # current_distribution =>
       pc = "selected" /\ pc' = "fitted"
  /\ pc' = "fitted" =>
       current_distribution' = Fit(elite_individuals, parameters.smoothing)
  /\ pc' = "sampled" =>
       /\ current_distribution = Fit(elite_individuals, parameters.smoothing)
       /\ Len(eval_pop_asarray') = parameters.pop_size
  /\ (pc = "sampled" /\ pc' = "gibbs") =>
       /\ Len(cloned_population') >= Len(eval_pop_asarray)
       /\ SubSeq(cloned_population', 1, Len(eval_pop_asarray)) = eval_pop_asarray
  /\ (pc = "gibbs" /\ pc' = "gibbs") => gibbs_i < Len(cloned_population)
  /\ (g' # g \/ traj_expanded' # traj_expanded) =>
       /\ pc = "gibbs" /\ pc' = "evaluating"
       /\ gibbs_i = Len(cloned_population)
       /\ g' = g + 1
       /\ traj_expanded' = [generation |-> g + 1, n |-> Len(eval_pop')]

\* C12: in a non-stopping post_process the steps follow one another as
\* elite selection, refit to the elite, sampling from the refit distribution,
\* cloning, Gibbs resampling, then the increment of g with the expansion of
\* the trajectory; the distribution is refit only right after the selection
\* and a population is sampled only once it holds the fit to this
\* generation's elite.
C12_StepOrder == [][C12_Step]_vars

\* C12 witness: a non-stopping call went through all its steps and a second
\* generation is submitted
C12_Witness ==
  /\ pc = "evaluating" /\ g = 1
  /\ current_distribution.fitted /\ distribution_results.defined
  /\ parameterDistribution.fitted

\* C14: end() called after the post_process call that stopped the
\* optimization does not raise, and distribution_results then holds the
\* result of the most recent fit of the distribution.
C14_EndCompletes ==
  /\ raised # "AttributeError"
  /\ pc \in {"stopped", "ended"} =>
       /\ distribution_results.defined
       /\ distribution_results = FitResults(current_distribution.data)

\* C13: simulate returns, and the fitness it returns is the sum over the ten
\* output clusters of the squared differences between the one-hot vector of
\* the target label and the model output it returns with it (the softmax of
\* the last mean calcium values), hence 0 exactly when the two are equal.
C13_FitnessIsSquaredError ==
  /\ raised # "NameError"
  /\ simulate_result.returned =>
       LET target == OneHot(traj_individual.targets[1], 1)
       IN /\ simulate_result.fitness =
               SquaredError(target, simulate_result.model_out)
          /\ simulate_result.fitness = 0 <=>
               simulate_result.model_out = target

====
